---- MODULE Spec2Model ----
(***************************************************************************)
(* Model of the financial ReAct agent: the data store (db.py), the tool    *)
(* registry and conversation loop (FinReAct.py) and the daily digest job   *)
(* (daily_mail.py).                                                        *)
(***************************************************************************)
EXTENDS Integers, Sequences, FiniteSets, TLC

\* ------------------------------------------------------------------------
\* Bounds of the model
\* ------------------------------------------------------------------------
\* cap on every id counter of id_counters (the counters are unbounded)
MaxId == 2
\* cap on the favorite_stocks counter in the specification that fills a
\* user's favorites up to the limit
MaxFavId == 6

\* cap on the number of run_financial_agent sessions
MaxSessions == 1
\* cap on the number of model responses of one session that request tools
\* (the loop itself has no cap)
MaxTurns == 2

\* the limit of favorites per user (db.py:146)
MaxFavorites == 5

\* Python None as a return value
None == "None"

\* an optional number (a price threshold): NULL / None, or a value
Null == <<>>
Some(v) == <<v>>

\* ------------------------------------------------------------------------
\* Strings that the code inspects are sequences of one-letter strings
\* ------------------------------------------------------------------------
LowerLetters == <<"a", "b", "c", "d", "e", "f">>
UpperLetters == <<"A", "B", "C", "D", "E", "F">>

\* str.upper() on one character: a lower-case letter maps to its capital,
\* everything else is left alone
UpperChar(c) ==
    IF \E i \in 1..Len(LowerLetters) : LowerLetters[i] = c
    THEN UpperLetters[CHOOSE i \in 1..Len(LowerLetters) : LowerLetters[i] = c]
    ELSE c

\* str.upper()
Upper(w) == [i \in 1..Len(w) |-> UpperChar(w[i])]

IsUpperWord(w) == \A i \in 1..Len(w) : \E j \in 1..Len(UpperLetters) : UpperLetters[j] = w[i]

\* ------------------------------------------------------------------------
\* The data store (db.py)
\* ------------------------------------------------------------------------
Tables == {"users", "favorite_stocks", "user_queries", "agent_responses", "query_stocks"}

\* the store after setup_db: every counter 0, every table empty
EmptyDB ==
    [ last_id         |-> [t \in Tables |-> 0],
      users           |-> {},
      favorite_stocks |-> {},
      user_queries    |-> {},
      agent_responses |-> {},
      query_stocks    |-> {} ]

\* _get_next_id: UPDATE last_id = last_id + 1, then SELECT last_id
get_next_id(d, table_name) ==
    LET d1 == [d EXCEPT !.last_id[table_name] = @ + 1]
    IN  [db |-> d1, id |-> d1.last_id[table_name]]

UserIds(d) == {u.user_id : u \in d.users}

\* a mutant of create_user: the existence check is skipped
create_user_always(d, email) ==
    LET n == get_next_id(d, "users")
    IN  [db |-> [n.db EXCEPT !.users = @ \cup {[user_id |-> n.id, email |-> email]}],
         ret |-> n.id, raised |-> FALSE]

\* create_user
create_user(d, email) ==
    LET existing == {u \in d.users : u.email = email}
    IN  IF existing # {}
        THEN [db |-> d, ret |-> (CHOOSE u \in existing : TRUE).user_id, raised |-> FALSE]
        ELSE LET n == get_next_id(d, "users")
             IN  [db |-> [n.db EXCEPT !.users = @ \cup {[user_id |-> n.id, email |-> email]}],
                  ret |-> n.id, raised |-> FALSE]

FavoritesOf(d, user_id) == {f \in d.favorite_stocks : f.user_id = user_id}

\* the INSERT of add_favorite_stock; the FOREIGN KEY (user_id) makes it fail
\* for a user id that is not in users, after the counter was incremented
insert_favorite(d, user_id, symbol, low, high) ==
    LET n == get_next_id(d, "favorite_stocks")
    IN  IF user_id \notin UserIds(d)
        THEN [db |-> n.db, ret |-> None, raised |-> TRUE]
        ELSE [db |-> [n.db EXCEPT !.favorite_stocks = @ \cup
                        {[favorite_id          |-> n.id,
                          user_id              |-> user_id,
                          stock_symbol         |-> symbol,
                          price_threshold_low  |-> low,
                          price_threshold_high |-> high]}],
              ret |-> TRUE, raised |-> FALSE]

\* a mutant of add_favorite_stock: the limit is checked with > instead of >=
add_favorite_stock_off_by_one(d, user_id, stock_symbol, low, high) ==
    IF Cardinality(FavoritesOf(d, user_id)) > MaxFavorites
    THEN [db |-> d, ret |-> FALSE, raised |-> FALSE]
    ELSE IF \E f \in FavoritesOf(d, user_id) : f.stock_symbol = Upper(stock_symbol)
         THEN [db |-> d, ret |-> FALSE, raised |-> FALSE]
         ELSE insert_favorite(d, user_id, Upper(stock_symbol), low, high)

\* a mutant of add_favorite_stock: the duplicate check compares the symbol as given
add_favorite_stock_raw_check(d, user_id, stock_symbol, low, high) ==
    IF Cardinality(FavoritesOf(d, user_id)) >= MaxFavorites
    THEN [db |-> d, ret |-> FALSE, raised |-> FALSE]
    ELSE IF \E f \in FavoritesOf(d, user_id) : f.stock_symbol = stock_symbol
         THEN [db |-> d, ret |-> FALSE, raised |-> FALSE]
         ELSE insert_favorite(d, user_id, Upper(stock_symbol), low, high)

\* add_favorite_stock
add_favorite_stock(d, user_id, stock_symbol, low, high) ==
    IF Cardinality(FavoritesOf(d, user_id)) >= MaxFavorites
    THEN [db |-> d, ret |-> FALSE, raised |-> FALSE]
    ELSE IF \E f \in FavoritesOf(d, user_id) : f.stock_symbol = Upper(stock_symbol)
         THEN [db |-> d, ret |-> FALSE, raised |-> FALSE]
         ELSE insert_favorite(d, user_id, Upper(stock_symbol), low, high)

\* a mutant of remove_favorite_stock: the DELETE forgets the symbol
remove_favorite_stock_all(d, user_id, stock_symbol) ==
    [db |-> [d EXCEPT !.favorite_stocks = {f \in @ : f.user_id # user_id}],
     ret |-> None, raised |-> FALSE]

\* remove_favorite_stock
remove_favorite_stock(d, user_id, stock_symbol) ==
    [db |-> [d EXCEPT !.favorite_stocks =
                {f \in @ : ~(f.user_id = user_id /\ f.stock_symbol = Upper(stock_symbol))}],
     ret |-> None, raised |-> FALSE]

\* a mutant of update_thresholds: a threshold that is not given is kept
update_thresholds_keep(d, user_id, stock_symbol, low, high) ==
    [db |-> [d EXCEPT !.favorite_stocks =
                {IF f.user_id = user_id /\ f.stock_symbol = Upper(stock_symbol)
                 THEN [f EXCEPT !.price_threshold_low = IF low = Null THEN @ ELSE low,
                                !.price_threshold_high = IF high = Null THEN @ ELSE high]
                 ELSE f : f \in @}],
     ret |-> None, raised |-> FALSE]

\* update_thresholds
update_thresholds(d, user_id, stock_symbol, low, high) ==
    [db |-> [d EXCEPT !.favorite_stocks =
                {IF f.user_id = user_id /\ f.stock_symbol = Upper(stock_symbol)
                 THEN [f EXCEPT !.price_threshold_low = low, !.price_threshold_high = high]
                 ELSE f : f \in @}],
     ret |-> None, raised |-> FALSE]

\* get_user_favorites: the rows of the user (without the ORDER BY)
get_user_favorites(d, user_id) ==
    [db |-> d,
     ret |-> {[stock_symbol         |-> f.stock_symbol,
               price_threshold_low  |-> f.price_threshold_low,
               price_threshold_high |-> f.price_threshold_high] : f \in FavoritesOf(d, user_id)},
     raised |-> FALSE]

\* log_query; the FOREIGN KEY (user_id) makes the INSERT fail for an unknown user
log_query(d, user_id, query_text, query_type) ==
    LET n == get_next_id(d, "user_queries")
    IN  IF user_id \notin UserIds(d)
        THEN [db |-> n.db, ret |-> None, raised |-> TRUE]
        ELSE [db |-> [n.db EXCEPT !.user_queries = @ \cup
                        {[query_id   |-> n.id,
                          user_id    |-> user_id,
                          query_text |-> query_text,
                          query_type |-> query_type]}],
              ret |-> n.id, raised |-> FALSE]

\* a mutant of log_response: the row is written twice
log_response_twice(d, query_id, response_text, tools_used, execution_time_ms) ==
    LET n1 == get_next_id(d, "agent_responses")
        n2 == get_next_id(n1.db, "agent_responses")
        row(i) == [response_id       |-> i,
                   query_id          |-> query_id,
                   response_text     |-> response_text,
                   tools_used        |-> tools_used,
                   execution_time_ms |-> execution_time_ms]
    IN  [db |-> [n2.db EXCEPT !.agent_responses = @ \cup {row(n1.id), row(n2.id)}],
         ret |-> None, raised |-> FALSE]

\* log_response; tools_used is stored as the JSON text of the list, which
\* keeps the names and their order
log_response(d, query_id, response_text, tools_used, execution_time_ms) ==
    LET n == get_next_id(d, "agent_responses")
    IN  IF query_id \notin {q.query_id : q \in d.user_queries}
        THEN [db |-> n.db, ret |-> None, raised |-> TRUE]
        ELSE [db |-> [n.db EXCEPT !.agent_responses = @ \cup
                        {[response_id       |-> n.id,
                          query_id          |-> query_id,
                          response_text     |-> response_text,
                          tools_used        |-> tools_used,
                          execution_time_ms |-> execution_time_ms]}],
              ret |-> None, raised |-> FALSE]

\* log_query_stocks: one row, with its own id, per symbol
RECURSIVE log_query_stocks(_, _, _)
log_query_stocks(d, query_id, stock_symbols) ==
    IF stock_symbols = <<>>
    THEN [db |-> d, ret |-> None, raised |-> FALSE]
    ELSE LET n == get_next_id(d, "query_stocks")
             d1 == [n.db EXCEPT !.query_stocks = @ \cup
                        {[id           |-> n.id,
                          query_id     |-> query_id,
                          stock_symbol |-> Upper(Head(stock_symbols))]}]
         IN  log_query_stocks(d1, query_id, Tail(stock_symbols))

\* get_user_query_history: the queries of the user joined with their
\* responses, newest first, at most `limit` rows
get_user_query_history(d, user_id, limit) ==
    LET joined == {[query_id          |-> q.query_id,
                    response_id       |-> r.response_id,
                    query_text        |-> q.query_text,
                    response_text     |-> r.response_text,
                    tools_used        |-> r.tools_used,
                    execution_time_ms |-> r.execution_time_ms] :
                        <<q, r>> \in {p \in d.user_queries \X d.agent_responses :
                                        p[1].user_id = user_id /\ p[1].query_id = p[2].query_id}}
        newer(a, b) == a.query_id > b.query_id
                       \/ (a.query_id = b.query_id /\ a.response_id > b.response_id)
    IN  [db |-> d,
         ret |-> {j \in joined : Cardinality({k \in joined : newer(k, j)}) < limit},
         raised |-> FALSE]

\* ------------------------------------------------------------------------
\* The tool registry (FinReAct.py).  `fail` is a failure of what the tool
\* depends on: the provider request, the connection to the store
\* (FinancialAgentDB() raises), the SMTP session.
\* ------------------------------------------------------------------------
ToolNames == <<"get_stock_data", "get_balance_sheet", "get_income_statement", "web_search",
               "get_user_favorites", "add_favorite_stock", "remove_favorite_stock",
               "update_stock_thresholds", "get_query_history", "send_email">>

ProviderTools == {"get_stock_data", "get_balance_sheet", "get_income_statement", "web_search"}

\* the call ends in an exception
Raised(d) == [db |-> d, ret |-> [exception |-> TRUE], raised |-> TRUE]

\* get_stock_data, get_balance_sheet, get_income_statement, web_search:
\* requests.get / SerpAPIWrapper.run with no try around it
tool_provider(d, name, symbol, fail) ==
    IF fail THEN Raised(d)
    ELSE [db |-> d, ret |-> [json |-> name, symbol |-> symbol], raised |-> FALSE]

\* the tool get_user_favorites
tool_get_user_favorites(d, user_id, fail) ==
    IF fail THEN Raised(d)
    ELSE [db |-> d, ret |-> [rows |-> get_user_favorites(d, user_id).ret], raised |-> FALSE]

\* the tool add_favorite_stock
tool_add_favorite_stock(d, user_id, stock_symbol, low, high, fail) ==
    IF fail THEN Raised(d)
    ELSE LET r == add_favorite_stock(d, user_id, stock_symbol, low, high)
         IN  IF r.raised THEN Raised(r.db)
             ELSE [db |-> r.db,
                   ret |-> [success |-> r.ret,
                            message |-> IF r.ret THEN "Stock added to favorites."
                                        ELSE "Failed to add stock to favorites."],
                   raised |-> FALSE]

\* the tool remove_favorite_stock
tool_remove_favorite_stock(d, user_id, stock_symbol, fail) ==
    IF fail THEN Raised(d)
    ELSE [db |-> remove_favorite_stock(d, user_id, stock_symbol).db,
          ret |-> [success |-> TRUE, message |-> "Removed from favorites."],
          raised |-> FALSE]

\* the tool update_stock_thresholds
tool_update_stock_thresholds(d, user_id, stock_symbol, low, high, fail) ==
    IF fail THEN Raised(d)
    ELSE [db |-> update_thresholds(d, user_id, stock_symbol, low, high).db,
          ret |-> [success |-> TRUE, message |-> "Updated thresholds"],
          raised |-> FALSE]

\* the tool get_query_history
tool_get_query_history(d, user_id, limit, fail) ==
    IF fail THEN Raised(d)
    ELSE [db |-> d, ret |-> [rows |-> get_user_query_history(d, user_id, limit).ret],
          raised |-> FALSE]

\* the tool send_email: every exception of the SMTP session is caught
tool_send_email(d, recipient_email, fail) ==
    [db |-> d,
     ret |-> IF fail THEN [success |-> FALSE, message |-> "Failed to send email"]
             ELSE [success |-> TRUE, message |-> "Email sent successfully"],
     raised |-> FALSE]

\* ------------------------------------------------------------------------
\* State
\* ------------------------------------------------------------------------
VARIABLES
    db,             \* the data store: id_counters and the five tables
    last,           \* the last call made on the tool registry / the store, with its result
    first_id,       \* per email, the id returned by the first create_user
    pc,             \* run_financial_agent / the conversation loop: where it is
    session,        \* run_financial_agent: query, user_id, user_email, query_id
    messages,       \* the transcript (state["messages"])
    results,        \* ToolNode: per tool call of the last model message, its result once executed
    executed,       \* the tool calls executed so far in the session, in execution order
    tools_used,     \* run_financial_agent: tools_used
    response_text,  \* run_financial_agent: response_text
    completed,      \* the query ids of the sessions that ran to their end
    job,            \* daily_email_job: the day it runs on, where it is, what it did
    alert,          \* check_price_alerts: the arguments and the result
    writers         \* the connections writing to the store, each statement by statement

storeVars   == <<db, last, first_id>>
sessionVars == <<pc, session, messages, results, executed, tools_used, response_text, completed>>
vars        == <<db, last, first_id, pc, session, messages, results, executed,
                 tools_used, response_text, completed, job, alert, writers>>

NoCall == [op |-> "none", arg |-> [none |-> TRUE], fail |-> FALSE, pre |-> 0, held |-> FALSE,
           same |-> TRUE, ret |-> [none |-> TRUE], raised |-> FALSE]

\* the connections of the programs that write to the store
Conns == {"agent", "digest"}

NoWriters == [conn   |-> [c \in Conns |-> [pc |-> "idle", user_id |-> 0, id |-> 0]],
              handed |-> <<>>]

Init ==
    /\ db = EmptyDB
    /\ last = NoCall
    /\ first_id = [e \in {} |-> 0]
    /\ pc = "idle"
    /\ session = None
    /\ messages = <<>>
    /\ results = <<>>
    /\ executed = <<>>
    /\ tools_used = <<>>
    /\ response_text = <<>>
    /\ completed = {}
    /\ job = [pc |-> "idle", weekday |-> 0, todo |-> {}, fetches |-> 0, sends |-> 0, delivered |-> 0, rows |-> 0,
               mails |-> {}]
    /\ alert = [close |-> 0, low |-> Null, high |-> Null, called |-> FALSE,
                ret |-> [none |-> TRUE, lines |-> <<>>]]
    /\ writers = NoWriters

\* ------------------------------------------------------------------------
\* Inputs
\* ------------------------------------------------------------------------
Emails == {"u1@x.com", "u2@x.com"}
UserArgs == {1, 2}
Symbols == {<<"a">>, <<"A">>, <<"b">>}
\* (low, high) threshold pairs given to add_favorite_stock / update_thresholds
ThresholdPairs == {<<Null, Null>>, <<Some(1), Null>>, <<Some(1), Some(2)>>}

\* every id counter stays within the cap (the users counter is bounded by Emails)
Within(d, cap) == \A t \in Tables \ {"users"} : d.last_id[t] <= cap

Count(d, user_id) == Cardinality(FavoritesOf(d, user_id))

HasFavorite(d, user_id, symbol) ==
    \E f \in FavoritesOf(d, user_id) : Upper(f.stock_symbol) = symbol

\* The call `op` made with `arg` has result r and leaves the store as r.db.
\* `last` keeps, with the result, what the call found: pre, the number of
\* favorites of the addressed user; held, whether that user held the
\* addressed symbol; same, whether the call left favorite_stocks as it was.
Returns(op, arg, fail, pre, held, r, cap) ==
    /\ Within(r.db, cap)
    /\ db' = r.db
    /\ last' = [op |-> op, arg |-> arg, fail |-> fail, pre |-> pre, held |-> held,
                same |-> (r.db.favorite_stocks = db.favorite_stocks),
                ret |-> r.ret, raised |-> r.raised]

\* authenticate_user: create_user for the email typed in
AuthenticateUser(email, cap) ==
    LET r == create_user(db, email)
    IN  /\ Returns("create_user", [email |-> email], FALSE,
                   Cardinality({u \in db.users : u.email = email}), FALSE,
                   [r EXCEPT !.ret = [user_id |-> r.ret]], cap)
        /\ first_id' = IF email \in DOMAIN first_id THEN first_id
                       ELSE [e \in DOMAIN first_id \cup {email} |->
                                IF e = email THEN r.ret ELSE first_id[e]]
        /\ UNCHANGED <<sessionVars, job, alert, writers>>

FavArg(user_id, symbol) == [user_id |-> user_id, symbol |-> symbol]

InvokeProvider(name, symbol, fail) ==
    /\ Returns(name, [symbol |-> symbol], fail, 0, FALSE,
               tool_provider(db, name, symbol, fail), MaxId)
    /\ UNCHANGED <<first_id, sessionVars, job, alert, writers>>

InvokeGetUserFavorites(user_id, fail) ==
    /\ Returns("get_user_favorites", [user_id |-> user_id], fail, Count(db, user_id), FALSE,
               tool_get_user_favorites(db, user_id, fail), MaxId)
    /\ UNCHANGED <<first_id, sessionVars, job, alert, writers>>

InvokeAddFavoriteStock(user_id, symbol, low, high, fail, cap) ==
    /\ Returns("add_favorite_stock", FavArg(user_id, symbol), fail, Count(db, user_id),
               HasFavorite(db, user_id, Upper(symbol)),
               tool_add_favorite_stock(db, user_id, symbol, low, high, fail), cap)
    /\ UNCHANGED <<first_id, sessionVars, job, alert, writers>>

InvokeRemoveFavoriteStock(user_id, symbol, fail, cap) ==
    /\ Returns("remove_favorite_stock", FavArg(user_id, symbol), fail, Count(db, user_id),
               HasFavorite(db, user_id, Upper(symbol)),
               tool_remove_favorite_stock(db, user_id, symbol, fail), cap)
    /\ UNCHANGED <<first_id, sessionVars, job, alert, writers>>

InvokeUpdateStockThresholds(user_id, symbol, low, high, fail, cap) ==
    /\ Returns("update_stock_thresholds",
               [user_id |-> user_id, symbol |-> symbol, low |-> low, high |-> high],
               fail, Count(db, user_id),
               HasFavorite(db, user_id, Upper(symbol)),
               tool_update_stock_thresholds(db, user_id, symbol, low, high, fail), cap)
    /\ UNCHANGED <<first_id, sessionVars, job, alert, writers>>

InvokeGetQueryHistory(user_id, limit, fail) ==
    /\ Returns("get_query_history", [user_id |-> user_id], fail, 0, FALSE,
               tool_get_query_history(db, user_id, limit, fail), MaxId)
    /\ UNCHANGED <<first_id, sessionVars, job, alert, writers>>

InvokeSendEmail(email, fail) ==
    /\ Returns("send_email", [email |-> email], fail, 0, FALSE,
               tool_send_email(db, email, fail), MaxId)
    /\ UNCHANGED <<first_id, sessionVars, job, alert, writers>>

\* the arguments of a call that fails before it reads them
AnySymbol == <<"A">>

\* The store behind its tools: users sign in and manage their favorites,
\* one call at a time, the store being reachable
Next ==
    \/ \E e \in Emails : AuthenticateUser(e, MaxId)
    \/ \E u \in UserArgs : InvokeGetUserFavorites(u, FALSE)
    \/ \E u \in UserArgs, s \in Symbols, t \in ThresholdPairs :
          InvokeAddFavoriteStock(u, s, t[1], t[2], FALSE, MaxId)
    \/ \E u \in UserArgs, s \in Symbols : InvokeRemoveFavoriteStock(u, s, FALSE, MaxId)
    \/ \E u \in UserArgs, s \in Symbols, t \in ThresholdPairs :
          InvokeUpdateStockThresholds(u, s, t[1], t[2], FALSE, MaxId)

Spec == Init /\ [][Next]_vars

\* The whole tool registry, called one tool at a time, with and without a
\* failure of what the tool depends on
NextTools ==
    \/ \E e \in Emails : AuthenticateUser(e, MaxId)
    \/ \E n \in ProviderTools, fail \in BOOLEAN : InvokeProvider(n, AnySymbol, fail)
    \/ \E u \in UserArgs, fail \in BOOLEAN : InvokeGetUserFavorites(u, fail)
    \/ \E u \in UserArgs, s \in Symbols, t \in ThresholdPairs :
          InvokeAddFavoriteStock(u, s, t[1], t[2], FALSE, MaxId)
    \/ \E u \in UserArgs : InvokeAddFavoriteStock(u, AnySymbol, Null, Null, TRUE, MaxId)
    \/ \E u \in UserArgs, s \in Symbols : InvokeRemoveFavoriteStock(u, s, FALSE, MaxId)
    \/ \E u \in UserArgs : InvokeRemoveFavoriteStock(u, AnySymbol, TRUE, MaxId)
    \/ \E u \in UserArgs, s \in Symbols, t \in ThresholdPairs :
          InvokeUpdateStockThresholds(u, s, t[1], t[2], FALSE, MaxId)
    \/ \E u \in UserArgs : InvokeUpdateStockThresholds(u, AnySymbol, Null, Null, TRUE, MaxId)
    \/ \E u \in UserArgs, fail \in BOOLEAN : InvokeGetQueryHistory(u, 10, fail)
    \/ \E e \in Emails, fail \in BOOLEAN : InvokeSendEmail(e, fail)

SpecTools == Init /\ [][NextTools]_vars

\* One user filling the favorites up to the limit: the calls are drawn from
\* a list with more distinct symbols than the limit
CapEmail == "u1@x.com"
CapUsers == {1}
CapAdds ==
    { [symbol |-> <<"A">>, low |-> Null,    high |-> Null],
      [symbol |-> <<"B">>, low |-> Some(1), high |-> Null],
      [symbol |-> <<"C">>, low |-> Some(1), high |-> Some(2)],
      [symbol |-> <<"D">>, low |-> Null,    high |-> Null],
      [symbol |-> <<"E">>, low |-> Some(1), high |-> Null],
      [symbol |-> <<"F">>, low |-> Some(1), high |-> Some(2)] }
CapRemoves == { <<"a">> }
CapUpdates ==
    { [symbol |-> <<"b">>, low |-> Null,    high |-> Null] }

NextCap ==
    \/ AuthenticateUser(CapEmail, MaxFavId)
    \/ \E u \in CapUsers, c \in CapAdds :
          InvokeAddFavoriteStock(u, c.symbol, c.low, c.high, FALSE, MaxFavId)
    \/ \E u \in CapUsers, s \in CapRemoves : InvokeRemoveFavoriteStock(u, s, FALSE, MaxFavId)
    \/ \E u \in CapUsers, c \in CapUpdates :
          InvokeUpdateStockThresholds(u, c.symbol, c.low, c.high, FALSE, MaxFavId)

SpecCap == Init /\ [][NextCap]_vars

\* ------------------------------------------------------------------------
\* The conversation loop and the session runner (FinReAct.py)
\* ------------------------------------------------------------------------
\* texts are sequences of words, words sequences of letters
AnswerText  == << <<"f", "a", "d", "e">> >>
ThoughtText == << <<"a", "d", "d">> >>
OkText      == << <<"a", "c", "e">> >>
FailedText  == << <<"b", "a", "d">> >>
DataText    == << <<"f", "e", "e", "d">> >>
ErrorText   == << <<"d", "e", "a", "d">> >>

\* what the user asks
Queries == { << <<"a", "d", "d">>, <<"A", "B">>, <<"c">>, <<"F">> >> }

\* the user of the interactive program
AgentEmail == "u1@x.com"

\* the time the loop took, in ms
ElapsedMs == {12}

Call(name, symbol) == [name |-> name, symbol |-> symbol]

\* what model.invoke may answer: a text and a list of tool calls
ModelResponses ==
    { [content |-> AnswerText,  tool_calls |-> <<>>],
      [content |-> <<>>,        tool_calls |-> <<>>],
      [content |-> <<>>,        tool_calls |-> <<Call("get_stock_data", <<"A">>)>>],
      [content |-> ThoughtText, tool_calls |-> <<Call("add_favorite_stock", <<"a">>),
                                                 Call("send_email", <<>>)>>] }

\* the thresholds the model passes to add_favorite_stock / update_stock_thresholds
CallLow == Some(1)
CallHigh == Null

\* the tool named by a tool call, run for the user of the session
RunTool(d, call, user_id, user_email, fail) ==
    CASE call.name \in ProviderTools -> tool_provider(d, call.name, call.symbol, fail)
      [] call.name = "get_user_favorites" -> tool_get_user_favorites(d, user_id, fail)
      [] call.name = "add_favorite_stock" ->
            tool_add_favorite_stock(d, user_id, call.symbol, CallLow, CallHigh, fail)
      [] call.name = "remove_favorite_stock" ->
            tool_remove_favorite_stock(d, user_id, call.symbol, fail)
      [] call.name = "update_stock_thresholds" ->
            tool_update_stock_thresholds(d, user_id, call.symbol, CallLow, CallHigh, fail)
      [] call.name = "get_query_history" -> tool_get_query_history(d, user_id, 10, fail)
      [] call.name = "send_email" -> tool_send_email(d, user_email, fail)

\* str(result) as the content of the tool message
ToolContent(r) ==
    IF r.raised THEN ErrorText
    ELSE IF "success" \in DOMAIN r.ret
         THEN (IF r.ret.success THEN OkText ELSE FailedText)
         ELSE DataText

HumanMessage(text) == [type |-> "human", name |-> "", content |-> text, tool_calls |-> <<>>]
AIMessage(resp) == [type |-> "ai", name |-> "", content |-> resp.content,
                    tool_calls |-> resp.tool_calls]
ToolMessage(name, text) == [type |-> "tool", name |-> name, content |-> text, tool_calls |-> <<>>]

\* a mutant of should_continue: the loop ends on a response that has text
should_continue_on_text(last_message) ==
    IF last_message.content # <<>> THEN "end" ELSE "continue"

\* should_continue
should_continue(last_message) ==
    IF last_message.tool_calls = <<>> THEN "end" ELSE "continue"

Names(calls) == [i \in 1..Len(calls) |-> calls[i].name]

\* a mutant of the loop body of run_financial_agent: only the first tool
\* call of a message is recorded
stream_body_first_only(message, used, text) ==
    [tools_used |-> IF message.type = "ai" /\ message.tool_calls # <<>>
                    THEN Append(used, message.tool_calls[1].name) ELSE used,
     response_text |-> IF message.content # <<>> THEN message.content ELSE text]

\* the body of `for s in app.stream(...)` on the last message of a streamed
\* state: the names of its tool calls are appended to tools_used, and a
\* non-empty content becomes response_text
stream_body(message, used, text) ==
    [tools_used |-> IF message.type = "ai" /\ message.tool_calls # <<>>
                    THEN used \o Names(message.tool_calls) ELSE used,
     response_text |-> IF message.content # <<>> THEN message.content ELSE text]

\* re.findall(r'\b[A-Z]{1,5}\b', query)
FindSymbols(query) ==
    SelectSeq(query, LAMBDA w : IsUpperWord(w) /\ Len(w) >= 1 /\ Len(w) <= 5)

LastMessage == messages[Len(messages)]

\* the tool calls of the last model message that were not executed yet
Pending == {i \in 1..Len(LastMessage.tool_calls) : i \notin DOMAIN results}

ToolTurns == Cardinality({i \in 1..Len(messages) :
                            messages[i].type = "ai" /\ messages[i].tool_calls # <<>>})

Extend(f, i, v) == [j \in DOMAIN f \cup {i} |-> IF j = i THEN v ELSE f[j]]

\* run_financial_agent up to app.stream: log_query, the inputs, the locals
LogQuery(query, user) ==
    LET r == log_query(db, user.user_id, query, "mixed")
    IN  /\ pc \in {"idle", "completed", "aborted"}
        /\ r.db.last_id["user_queries"] <= MaxSessions
        /\ db' = r.db
        /\ pc' = IF r.raised THEN "aborted" ELSE "Logged"
        /\ session' = [query |-> query, user_id |-> user.user_id, user_email |-> user.email,
                       query_id |-> IF r.raised THEN 0 ELSE r.ret]
        /\ messages' = <<>>
        /\ results' = <<>>
        /\ executed' = <<>>
        /\ tools_used' = <<>>
        /\ response_text' = <<>>
        /\ UNCHANGED <<last, first_id, completed, job, alert, writers>>

\* app.stream enters the graph at "Agent"; the first streamed state is the
\* input, whose last message is the user's
StartLoop ==
    LET m == HumanMessage(session.query)
        b == stream_body(m, tools_used, response_text)
    IN  /\ pc = "Logged"
        /\ pc' = "AwaitingModel"
        /\ messages' = <<m>>
        /\ tools_used' = b.tools_used
        /\ response_text' = b.response_text
        /\ UNCHANGED <<storeVars, session, results, executed, completed, job, alert, writers>>

\* the node "Agent": model_call appends the model's response; the
\* conditional edge should_continue leads to "Tools" or to END; the state is
\* streamed
ModelCallWithin(resp, turns) ==
    LET m == AIMessage(resp)
        b == stream_body(m, tools_used, response_text)
    IN  /\ pc = "AwaitingModel"
        /\ resp.tool_calls # <<>> => ToolTurns < turns
        /\ messages' = Append(messages, m)
        /\ pc' = IF should_continue(m) = "end" THEN "Done" ELSE "AwaitingTools"
        /\ results' = <<>>
        /\ tools_used' = b.tools_used
        /\ response_text' = b.response_text
        /\ UNCHANGED <<storeVars, session, executed, completed, job, alert, writers>>

ModelCall(resp) == ModelCallWithin(resp, MaxTurns)

\* the steps the graph has run: one per run of "Agent", one per run of "Tools"
Supersteps ==
    Cardinality({i \in 1..Len(messages) : messages[i].type = "ai"})
    + Cardinality({i \in 1..Len(messages) - 1 :
                      messages[i].type = "ai" /\ messages[i].tool_calls # <<>>})

\* app.stream is called without a config, so the graph runs under the
\* framework's default recursion_limit
RecursionLimit == 25

\* a mutant of out_of_steps: the graph runs without a recursion limit
out_of_steps_never(steps) == FALSE

\* the graph has run recursion_limit steps and is not at END
out_of_steps(steps) == steps >= RecursionLimit

\* the node "Tools": ToolNode runs the tool calls of the last model message
\* on an executor, so in no fixed order.  An exception of a tool is either
\* turned into the content of its tool message or raised out of app.stream,
\* as the ToolNode of the installed framework does.
ExecTool(i, fail, handled) ==
    LET call == LastMessage.tool_calls[i]
        r == RunTool(db, call, session.user_id, session.user_email, fail)
    IN  /\ pc = "AwaitingTools"
        /\ ~out_of_steps(Supersteps)
        /\ i \in Pending
        /\ db' = r.db
        /\ executed' = Append(executed, [turn |-> ToolTurns, index |-> i, name |-> call.name])
        /\ IF r.raised /\ ~handled
           THEN pc' = "aborted" /\ results' = results
           ELSE pc' = pc /\ results' = Extend(results, i, ToolContent(r))
        /\ UNCHANGED <<last, first_id, session, messages, tools_used, response_text,
                       completed, job, alert, writers>>

\* the node "Tools" returns: one tool message per tool call, in the order
\* of the calls; the edge leads back to "Agent"; the state is streamed
ToolsDone ==
    LET calls == LastMessage.tool_calls
        out == [i \in 1..Len(calls) |-> ToolMessage(calls[i].name, results[i])]
        b == stream_body(out[Len(out)], tools_used, response_text)
    IN  /\ pc = "AwaitingTools"
        /\ Pending = {}
        /\ messages' = messages \o out
        /\ pc' = "AwaitingModel"
        /\ results' = <<>>
        /\ tools_used' = b.tools_used
        /\ response_text' = b.response_text
        /\ UNCHANGED <<storeVars, session, executed, completed, job, alert, writers>>

\* run_financial_agent after the loop: log_response, then log_query_stocks
\* for the symbols found in the query
FinishSession(ms) ==
    LET r == log_response(db, session.query_id, response_text, tools_used, ms)
        symbols == FindSymbols(session.query)
        q == IF symbols # <<>> THEN log_query_stocks(r.db, session.query_id, symbols) ELSE r
    IN  /\ pc = "Done"
        /\ db' = q.db
        /\ pc' = "completed"
        /\ completed' = completed \cup {session.query_id}
        /\ UNCHANGED <<last, first_id, session, messages, results, executed,
                       tools_used, response_text, job, alert, writers>>

\* The interactive program: authenticate_user, then run_financial_agent
\* once per question
NextAgent ==
    \/ pc = "idle" /\ AuthenticateUser(AgentEmail, MaxId)
    \/ \E q \in Queries, u \in db.users : LogQuery(q, u)
    \/ StartLoop
    \/ \E resp \in ModelResponses : ModelCall(resp)
    \/ \E i \in 1..2, fail \in BOOLEAN, handled \in BOOLEAN : ExecTool(i, fail, handled)
    \/ ToolsDone
    \/ \E ms \in ElapsedMs : FinishSession(ms)

SpecAgent == Init /\ [][NextAgent]_vars

\* the recursion limit is reached with "Tools" still to run: app.stream
\* raises GraphRecursionError out of run_financial_agent, which has logged
\* the Query and does not reach log_response
GraphRecursionError ==
    /\ pc = "AwaitingTools"
    /\ out_of_steps(Supersteps)
    /\ pc' = "cut_off"
    /\ UNCHANGED <<storeVars, session, messages, results, executed, tools_used,
                   response_text, completed, job, alert, writers>>

\* The loop with a model that asks for one tool as long as it likes
LoopQueries == Queries \cup { << <<"c">> >> }
LoopResponses == { [content |-> AnswerText, tool_calls |-> <<>>],
                   [content |-> <<>>, tool_calls |-> <<>>],
                   [content |-> <<>>, tool_calls |-> <<Call("get_stock_data", <<"A">>)>>] }

NextLoop ==
    \/ pc = "idle" /\ AuthenticateUser(AgentEmail, MaxId)
    \/ \E q \in LoopQueries, u \in db.users : LogQuery(q, u)
    \/ StartLoop
    \/ \E resp \in LoopResponses : ModelCallWithin(resp, RecursionLimit)
    \/ ExecTool(1, FALSE, TRUE)
    \/ ToolsDone
    \/ GraphRecursionError
    \/ \E ms \in ElapsedMs : FinishSession(ms)

SpecLoop == Init /\ [][NextLoop]_vars

\* ------------------------------------------------------------------------
\* The daily digest job (daily_mail.py)
\* ------------------------------------------------------------------------
\* Python truth of an optional number: None and 0 are false
Truthy(t) == t # Null /\ t[1] # 0

\* check_price_alerts: the alert lines, joined, or None when there is none
check_price_alerts(close, low_threshold, high_threshold) ==
    LET low  == IF Truthy(low_threshold) /\ close <= low_threshold[1]
                THEN <<"PRICE DROPPED">> ELSE <<>>
        high == IF Truthy(high_threshold) /\ close >= high_threshold[1]
                THEN <<"PRICE ROSE">> ELSE <<>>
    IN  [none |-> (low \o high = <<>>), lines |-> low \o high]

\* a mutant of is_weekend: only Sunday counts
is_weekend_sunday(weekday) == weekday > 5

\* datetime.now().weekday() > 4: Saturday is 5, Sunday 6
is_weekend(weekday) == weekday > 4

\* FinancialAgentDB.get_all_users_with_favorites, which daily_email_job
\* calls and db.py does not define: the users who hold a favorite
get_all_users_with_favorites(d) ==
    {u \in d.users : FavoritesOf(d, u.user_id) # {}}

\* FinancialAgentDB.get_user_favorite_stocks, which daily_email_job calls
\* and db.py does not define: the favorite rows of the user
get_user_favorite_stocks(d, user_id) == FavoritesOf(d, user_id)

DigestQueryText    == << <<"d", "a", "i", "l", "y">>, <<"s", "e", "n", "t">> >>
DigestResponseText == << <<"s", "e", "n", "t">> >>
DigestTools == <<"email", "stock_data", "news">>

Weekdays == 0..6

\* daily_email_job up to the loop over the users: on a weekend it returns
\* at once; otherwise it asks the store for the users with favorites, which
\* raises AttributeError with the store of db.py
JobStart(weekday, defined) ==
    /\ job.pc \in {"idle", "skipped", "crashed", "finished"}
    /\ job' = [pc |-> IF is_weekend(weekday) THEN "skipped"
                      ELSE IF defined THEN "running" ELSE "crashed",
               weekday |-> weekday,
               todo |-> IF ~is_weekend(weekday) /\ defined
                        THEN get_all_users_with_favorites(db) ELSE {},
               fetches |-> 0, sends |-> 0, delivered |-> 0, rows |-> 0,
               mails |-> {}]
    /\ UNCHANGED <<storeVars, sessionVars, alert, writers>>

\* StockEmailer.get_stock_data: the latest quote, or an error entry when
\* the provider fails or knows no such symbol; it never raises
emailer_get_stock_data(symbol, close, fails) ==
    IF fails THEN [symbol |-> symbol, error |-> TRUE, close |-> 0]
    ELSE [symbol |-> symbol, error |-> FALSE, close |-> close]

\* StockEmailer.get_stock_news: the headlines as items with index and
\* title, or the one item {'error': ...} when the search fails
emailer_get_stock_news(symbol, fails) ==
    IF fails THEN [error |-> TRUE, items |-> 1] ELSE [error |-> FALSE, items |-> 1]

\* a mutant of favorite_data: the alerts are evaluated whatever the quote is
favorite_data_always(favorite, close, quote_fails, news_fails) ==
    LET stock_data == emailer_get_stock_data(favorite.stock_symbol, close, quote_fails)
    IN  [symbol     |-> favorite.stock_symbol,
         stock_data |-> stock_data,
         news       |-> emailer_get_stock_news(favorite.stock_symbol, news_fails),
         evaluated  |-> TRUE,
         alerts     |-> check_price_alerts(stock_data.close, favorite.price_threshold_low,
                                           favorite.price_threshold_high).lines]

\* the body of the loop over the favorites of a user: the entry appended to
\* favorites_data; alerts stays "" when the quote is an error entry
favorite_data(favorite, close, quote_fails, news_fails) ==
    LET stock_data == emailer_get_stock_data(favorite.stock_symbol, close, quote_fails)
    IN  [symbol     |-> favorite.stock_symbol,
         stock_data |-> stock_data,
         news       |-> emailer_get_stock_news(favorite.stock_symbol, news_fails),
         evaluated  |-> ~stock_data.error,
         alerts     |-> IF stock_data.error THEN <<>>
                        ELSE check_price_alerts(stock_data.close, favorite.price_threshold_low,
                                                favorite.price_threshold_high).lines]

\* format_stock_email: one block per entry, an error block for an error
\* quote and a quote block with the alerts and the news otherwise; reading
\* item['index'] of the news error item raises KeyError
format_stock_email(favorites_data) ==
    [raised |-> \E e \in favorites_data :
                    ~e.stock_data.error /\ e.news.error /\ e.news.items > 0,
     blocks |-> {[symbol |-> e.symbol,
                  kind   |-> IF e.stock_data.error THEN "error" ELSE "quote",
                  alerts |-> IF e.stock_data.error THEN <<>> ELSE e.alerts]
                 : e \in favorites_data}]

\* `if self.send_email(...)`: send_email returns a dict with the keys
\* success and message in both cases, and a non-empty dict is true
send_truthy(sent) == TRUE

QuoteCloses == {2}

\* one turn of the loop over the users: a quote and a news fetch per
\* favorite, the body, one email, and the Query/Response pair when the
\* value returned by send_email is true
JobUser(user, close, quote_errors, news_errors, sent) ==
    LET favorites == get_user_favorite_stocks(db, user.user_id)
        data == {favorite_data(f, close, f.stock_symbol \in quote_errors,
                               f.stock_symbol \in news_errors) : f \in favorites}
        body == format_stock_email(data)
        q == log_query(db, user.user_id, DigestQueryText, "datetime")
        r == log_response(q.db, q.ret, DigestResponseText, DigestTools, 0)
        fetched == [job EXCEPT !.fetches = @ + 2 * Cardinality(favorites)]
        mail == [user_id |-> user.user_id, data |-> data, blocks |-> body.blocks,
                 sent |-> sent, query_id |-> Null]
    IN  /\ job.pc = "running"
        /\ user \in job.todo
        /\ quote_errors \cup news_errors \subseteq {f.stock_symbol : f \in favorites}
        /\ IF favorites = {}
           THEN /\ job' = [job EXCEPT !.todo = @ \ {user}]
                /\ db' = db
           ELSE IF body.raised
           THEN /\ job' = [fetched EXCEPT !.pc = "crashed"]
                /\ db' = db
           ELSE IF ~send_truthy(sent)
           THEN /\ job' = [fetched EXCEPT !.todo = @ \ {user},
                                          !.sends = @ + 1,
                                          !.delivered = @ + (IF sent THEN 1 ELSE 0),
                                          !.mails = @ \cup {mail}]
                /\ db' = db
           ELSE IF q.raised
           THEN /\ job' = [fetched EXCEPT !.pc = "crashed",
                                          !.sends = @ + 1,
                                          !.delivered = @ + (IF sent THEN 1 ELSE 0),
                                          !.mails = @ \cup {mail}]
                /\ db' = q.db
           ELSE /\ Within(r.db, MaxId)
                /\ job' = [fetched EXCEPT !.todo = @ \ {user},
                                          !.sends = @ + 1,
                                          !.delivered = @ + (IF sent THEN 1 ELSE 0),
                                          !.rows = @ + 2,
                                          !.mails = @ \cup
                                              {[mail EXCEPT !.query_id = Some(q.ret)]}]
                /\ db' = r.db
        /\ UNCHANGED <<last, first_id, sessionVars, alert, writers>>

\* the loop over the users is over
JobEnd ==
    /\ job.pc = "running"
    /\ job.todo = {}
    /\ job' = [job EXCEPT !.pc = "finished"]
    /\ UNCHANGED <<storeVars, sessionVars, alert, writers>>

\* The scheduled program next to users who sign in and add favorites
NextDigest ==
    \/ \E e \in Emails : AuthenticateUser(e, MaxId)
    \/ \E u \in UserArgs, s \in Symbols :
          InvokeAddFavoriteStock(u, s, Null, Null, FALSE, MaxId)
    \/ \E d \in Weekdays, defined \in BOOLEAN : JobStart(d, defined)
    \/ \E u \in job.todo, c \in QuoteCloses, sent \in BOOLEAN : JobUser(u, c, {}, {}, sent)
    \/ JobEnd

SpecDigest == Init /\ [][NextDigest]_vars

\* One digest run at a time, the quote and the news provider failing for
\* any of the symbols fetched; the store is written between the runs only,
\* so that what a run leaves is seen against the store it ran on
DigestAdds == {[symbol |-> <<"A">>, low |-> Some(1), high |-> Some(2)],
               [symbol |-> <<"b">>, low |-> Null, high |-> Null]}
DigestSymbols == {Upper(a.symbol) : a \in DigestAdds}
DigestDays == {0, 5}
BetweenRuns == job.pc \in {"idle", "skipped"}

NextDigestRun ==
    \/ \E e \in Emails : BetweenRuns /\ AuthenticateUser(e, MaxId)
    \/ \E u \in UserArgs, a \in DigestAdds :
          /\ BetweenRuns
          /\ InvokeAddFavoriteStock(u, a.symbol, a.low, a.high, FALSE, MaxId)
    \/ \E d \in DigestDays, defined \in BOOLEAN : JobStart(d, defined)
    \/ \E u \in job.todo, c \in QuoteCloses, sent \in BOOLEAN :
          \E qe \in SUBSET DigestSymbols, ne \in SUBSET DigestSymbols :
              JobUser(u, c, qe, ne, sent)
    \/ JobEnd

SpecDigestRun == Init /\ [][NextDigestRun]_vars

\* check_price_alerts on its own: any close price with any two thresholds
Prices == 0..3
OptionalPrices == {Null} \cup {Some(p) : p \in Prices}

InitAlerts ==
    /\ db = EmptyDB
    /\ last = NoCall
    /\ first_id = [e \in {} |-> 0]
    /\ pc = "idle"
    /\ session = None
    /\ messages = <<>>
    /\ results = <<>>
    /\ executed = <<>>
    /\ tools_used = <<>>
    /\ response_text = <<>>
    /\ completed = {}
    /\ job = [pc |-> "idle", weekday |-> 0, todo |-> {}, fetches |-> 0, sends |-> 0, delivered |-> 0, rows |-> 0,
               mails |-> {}]
    /\ \E c \in Prices, lo \in OptionalPrices, hi \in OptionalPrices :
          alert = [close |-> c, low |-> lo, high |-> hi, called |-> FALSE,
                   ret |-> [none |-> TRUE, lines |-> <<>>]]
    /\ writers = NoWriters

CheckPriceAlerts ==
    /\ ~alert.called
    /\ alert' = [alert EXCEPT !.called = TRUE,
                              !.ret = check_price_alerts(alert.close, alert.low, alert.high)]
    /\ UNCHANGED <<storeVars, sessionVars, job, writers>>

SpecAlerts == InitAlerts /\ [][CheckPriceAlerts]_vars

\* ------------------------------------------------------------------------
\* Several connections on one store (db.py, statement by statement)
\* ------------------------------------------------------------------------
\* _get_next_id, first statement: UPDATE id_counters SET last_id = last_id + 1
get_next_id_update(d, table_name) == [d EXCEPT !.last_id[table_name] = @ + 1]

\* _get_next_id, second statement: SELECT last_id FROM id_counters
get_next_id_select(d, table_name) == d.last_id[table_name]

\* the INSERT of log_query; query_id is the PRIMARY KEY of user_queries
insert_query(d, query_id, user_id, query_text, query_type) ==
    IF query_id \in {q.query_id : q \in d.user_queries} \/ user_id \notin UserIds(d)
    THEN [db |-> d, ret |-> None, raised |-> TRUE]
    ELSE [db |-> [d EXCEPT !.user_queries = @ \cup
                    {[query_id   |-> query_id,
                      user_id    |-> user_id,
                      query_text |-> query_text,
                      query_type |-> query_type]}],
          ret |-> query_id, raised |-> FALSE]

WriterText == << <<"a">> >>

\* log_query on connection c, up to the UPDATE of _get_next_id; each
\* statement is committed on its own, no transaction being opened
WriterUpdate(c, user_id) ==
    /\ writers.conn[c].pc = "idle"
    /\ user_id \in UserIds(db)
    /\ db.last_id["user_queries"] < MaxId
    /\ db' = get_next_id_update(db, "user_queries")
    /\ writers' = [writers EXCEPT !.conn[c] = [pc |-> "updated", user_id |-> user_id, id |-> 0]]
    /\ UNCHANGED <<last, first_id, sessionVars, job, alert>>

\* the SELECT of _get_next_id on connection c: the id it returns
WriterSelect(c) ==
    /\ writers.conn[c].pc = "updated"
    /\ writers' = [writers EXCEPT
                      !.conn[c].pc = "selected",
                      !.conn[c].id = get_next_id_select(db, "user_queries"),
                      !.handed = Append(@, get_next_id_select(db, "user_queries"))]
    /\ UNCHANGED <<storeVars, sessionVars, job, alert>>

\* the INSERT of log_query on connection c, with the id it was handed
WriterInsert(c) ==
    LET w == writers.conn[c]
        r == insert_query(db, w.id, w.user_id, WriterText, "mixed")
    IN  /\ w.pc = "selected"
        /\ db' = r.db
        /\ writers' = [writers EXCEPT !.conn[c].pc = IF r.raised THEN "failed" ELSE "inserted"]
        /\ UNCHANGED <<last, first_id, sessionVars, job, alert>>

\* log_query has returned, or raised, on connection c
WriterReturn(c) ==
    /\ writers.conn[c].pc \in {"inserted", "failed"}
    /\ writers' = [writers EXCEPT !.conn[c] = [pc |-> "idle", user_id |-> 0, id |-> 0]]
    /\ UNCHANGED <<storeVars, sessionVars, job, alert>>

NextWriters ==
    \/ \E e \in Emails : AuthenticateUser(e, MaxId)
    \/ \E c \in Conns, u \in UserArgs : WriterUpdate(c, u)
    \/ \E c \in Conns : WriterSelect(c)
    \/ \E c \in Conns : WriterInsert(c)
    \/ \E c \in Conns : WriterReturn(c)

SpecWriters == Init /\ [][NextWriters]_vars

\* ------------------------------------------------------------------------
\* Properties of the conversation loop and the session runner
\* ------------------------------------------------------------------------
ResponsesOf(query_id) == {r \in db.agent_responses : r.query_id = query_id}

InLoop == pc \in {"AwaitingModel", "AwaitingTools", "Done"}

\* C4: once a session has completed, the Query row it logged has exactly
\* one Response row; no Query row ever has more than one; the Query is
\* logged before the loop starts and the Response only after it has ended
C4_OneResponsePerQuery ==
    /\ \A q \in db.user_queries : Cardinality(ResponsesOf(q.query_id)) <= 1
    /\ \A id \in completed :
          /\ \E q \in db.user_queries : q.query_id = id
          /\ Cardinality(ResponsesOf(id)) = 1
    /\ pc = "completed" => session.query_id \in completed
    /\ (pc = "Logged" \/ InLoop) =>
          /\ \E q \in db.user_queries : q.query_id = session.query_id
          /\ ResponsesOf(session.query_id) = {}

\* a session that went through a tool turn has completed
C4_Witness ==
    /\ pc = "completed"
    /\ Cardinality(ResponsesOf(session.query_id)) = 1
    /\ tools_used # <<>>

IsRequest(i) == messages[i].type = "ai" /\ messages[i].tool_calls # <<>>

\* the number of the tool turn that message i opens
TurnOf(i) == Cardinality({j \in 1..i : IsRequest(j)})

\* the tool calls of message i were all executed, and their results follow
\* the message in the transcript, one tool message per call, in the order
\* of the calls
Answered(i) ==
    LET calls == messages[i].tool_calls
        turn == TurnOf(i)
    IN  /\ i + Len(calls) <= Len(messages)
        /\ \A k \in 1..Len(calls) :
              /\ messages[i + k].type = "tool"
              /\ messages[i + k].name = calls[k].name
              /\ Cardinality({e \in 1..Len(executed) :
                    executed[e].turn = turn /\ executed[e].index = k}) = 1

\* the tool calls of one turn were executed in the order of the calls
ExecutedInOrder ==
    \A e, f \in 1..Len(executed) :
        (e < f /\ executed[e].turn = executed[f].turn)
            => executed[e].index < executed[f].index

NumberOf(type) == Cardinality({i \in 1..Len(messages) : messages[i].type = type})

\* the loop is Done exactly on a model response without tool calls and
\* waits for tools exactly on one with tool calls; the model is called
\* again only when every tool call of the turn was executed and answered
\* in the transcript; nothing is executed after Done
LoopDiscipline ==
    /\ pc = "Done" => (LastMessage.type = "ai" /\ LastMessage.tool_calls = <<>>)
    /\ pc = "AwaitingTools" => IsRequest(Len(messages))
    /\ pc = "AwaitingModel" => LastMessage.type \in {"human", "tool"}
    /\ InLoop =>
          /\ \A i \in 1..Len(messages) :
                IsRequest(i) => (Answered(i) \/ (i = Len(messages) /\ pc = "AwaitingTools"))
          /\ \A i \in 1..Len(messages) - 1 : messages[i].type = "ai" => IsRequest(i)
          /\ \A e \in 1..Len(executed) :
                /\ executed[e].turn <= ToolTurns
                /\ \A f \in 1..Len(executed) :
                      (executed[e].turn = executed[f].turn
                         /\ executed[e].index = executed[f].index) => e = f
    /\ pc \in {"AwaitingModel", "Done"} => Len(executed) = NumberOf("tool")

RECURSIVE Requested(_)
Requested(msgs) ==
    IF msgs = <<>> THEN <<>>
    ELSE (IF Head(msgs).type = "ai" THEN Names(Head(msgs).tool_calls) ELSE <<>>)
         \o Requested(Tail(msgs))

\* C6: the tools_used of the Response row of a session is the sequence of
\* the names of the tool calls the model requested in the session's loop,
\* in the order met, each call once
C6_ToolsUsedAsRequested ==
    /\ InLoop => tools_used = Requested(messages)
    /\ pc = "completed" =>
          \A r \in ResponsesOf(session.query_id) : r.tools_used = Requested(messages)

\* a session with two tool turns, one of them of two calls, has completed
C6_Witness ==
    /\ pc = "completed"
    /\ ToolTurns = 2
    /\ \E r \in ResponsesOf(session.query_id) :
          /\ Len(r.tools_used) = 3
          /\ r.tools_used[1] = "get_stock_data"

\* ------------------------------------------------------------------------
\* Properties of the store and the tool registry
\* ------------------------------------------------------------------------
IsTool(op) == \E i \in 1..Len(ToolNames) : ToolNames[i] = op

\* C1: no user ever has more than 5 favorite_stocks rows, and an
\* add_favorite_stock made while the user has 5 returns failure and leaves
\* every favorite row as it was
C1_FavoritesCap ==
    /\ \A u \in UserArgs : Count(db, u) <= MaxFavorites
    /\ (last.op = "add_favorite_stock" /\ ~last.fail /\ last.pre >= MaxFavorites)
          => (~last.raised /\ last.ret.success = FALSE /\ last.same)

\* a sixth symbol was just refused to a user who holds 5 favorites
C1_Witness ==
    /\ last.op = "add_favorite_stock" /\ ~last.fail /\ ~last.held
    /\ last.pre = MaxFavorites
    /\ ~last.raised /\ last.ret.success = FALSE /\ last.same
    /\ Count(db, last.arg.user_id) = MaxFavorites
    /\ \E f \in db.favorite_stocks : f.price_threshold_low # Null

\* at most one favorite_stocks row per (user, uppercased symbol); every
\* stored symbol is uppercase
UniqueUppercase ==
    /\ \A f \in db.favorite_stocks : IsUpperWord(f.stock_symbol)
    /\ \A f, g \in db.favorite_stocks :
          (f.user_id = g.user_id /\ Upper(f.stock_symbol) = Upper(g.stock_symbol)) => f = g

\* C2: adding a favorite whose (user, symbol) pair is already stored, the
\* symbols compared after uppercasing, returns failure and adds no row; at
\* all times there is at most one row per (user, uppercased symbol) and
\* every stored symbol is uppercase
C2_NoDuplicateFavorite ==
    /\ UniqueUppercase
    /\ (last.op = "add_favorite_stock" /\ ~last.fail /\ last.held)
          => (~last.raised /\ last.ret.success = FALSE /\ last.same)

\* a lower-case spelling of a stored symbol was just refused
C2_Witness ==
    /\ last.op = "add_favorite_stock" /\ ~last.fail /\ last.held
    /\ ~last.raised /\ last.ret.success = FALSE
    /\ ~IsUpperWord(last.arg.symbol)
    /\ last.pre < MaxFavorites
    /\ HasFavorite(db, last.arg.user_id, Upper(last.arg.symbol))

\* C3: create_user is idempotent on email: every call returns the id the
\* first call returned, and users holds exactly one row for the email
C3_CreateUserIdempotent ==
    /\ \A e \in Emails : Cardinality({u \in db.users : u.email = e}) <= 1
    /\ \A e \in DOMAIN first_id :
          {u.user_id : u \in {v \in db.users : v.email = e}} = {first_id[e]}
    /\ last.op = "create_user"
          => (~last.raised /\ last.ret.user_id = first_id[last.arg.email])

\* create_user was just called again for an email that is in users, after
\* other calls changed the store
C3_Witness ==
    /\ last.op = "create_user" /\ last.pre = 1
    /\ last.ret.user_id = first_id[last.arg.email]
    /\ Cardinality(db.users) = 2
    /\ db.favorite_stocks # {}

\* C9: removing a favorite the user does not hold (after uppercasing the
\* symbol) completes without error and leaves every row of favorite_stocks,
\* and so the user's count, unchanged
C9_RemoveMissingIsNoop ==
    (last.op = "remove_favorite_stock" /\ ~last.fail /\ ~last.held)
       => (~last.raised /\ last.ret.success = TRUE /\ last.same
           /\ Count(db, last.arg.user_id) = last.pre)

\* a remove of a symbol the user does not hold just returned, and the user
\* and another user still hold their favorites
C9_Witness ==
    /\ last.op = "remove_favorite_stock" /\ ~last.fail /\ ~last.held
    /\ ~last.raised /\ last.same
    /\ last.pre >= 1
    /\ \E f \in db.favorite_stocks : f.user_id # last.arg.user_id

\* C10: no tool raises to its caller, whatever fails during its execution
C10_ToolsNeverRaise == IsTool(last.op) => ~last.raised

\* send_email returns a failure payload when the SMTP session fails
SendEmailNeverRaises ==
    last.op = "send_email" => (~last.raised /\ last.ret.success = ~last.fail)

\* ------------------------------------------------------------------------
\* Properties of the daily digest job
\* ------------------------------------------------------------------------
\* C7: a digest run that starts on a Saturday or Sunday fetches nothing,
\* sends nothing and writes no row
C7_WeekendRunDoesNothing ==
    (job.pc # "idle" /\ job.weekday \in {5, 6})
       => (job.pc = "skipped" /\ job.todo = {}
           /\ job.fetches = 0 /\ job.sends = 0 /\ job.rows = 0)

\* a run was skipped on a Saturday although a user holds favorites
C7_Witness ==
    /\ job.pc = "skipped" /\ job.weekday = 5
    /\ \E u \in db.users : FavoritesOf(db, u.user_id) # {}

InLines(kind) == \E i \in 1..Len(alert.ret.lines) : alert.ret.lines[i] = kind

\* C8: the two thresholds are evaluated independently: a low alert exactly
\* when a low threshold is set and close <= low, a high alert exactly when a
\* high threshold is set and close >= high, and no alert text when no
\* threshold is set
C8_AlertsPerThreshold ==
    alert.called =>
        /\ InLines("PRICE DROPPED") <=> (alert.low # Null /\ alert.close <= alert.low[1])
        /\ InLines("PRICE ROSE") <=> (alert.high # Null /\ alert.close >= alert.high[1])
        /\ (alert.low = Null /\ alert.high = Null) => alert.ret.none

\* the Query/Response pair that marks a digest as sent is in the store
DigestPairLogged(m) ==
    /\ m.query_id # Null
    /\ \E q \in db.user_queries :
          q.query_id = m.query_id[1] /\ q.user_id = m.user_id /\ q.query_text = DigestQueryText
    /\ \E r \in db.agent_responses :
          /\ r.query_id = m.query_id[1]
          /\ r.execution_time_ms = 0
          /\ r.tools_used = DigestTools

\* C11: in a digest run the Query/Response pair is logged for a user if and
\* only if the email to that user went out; a failed send writes no row
C11_DigestLoggedIffSent ==
    \A m \in job.mails : DigestPairLogged(m) <=> m.sent

MailsOf(user_id) == {m \in job.mails : m.user_id = user_id}

SymbolsOf(user_id) == {f.stock_symbol : f \in FavoritesOf(db, user_id)}

\* the weekday run is over, by its last statement or by an exception
WeekdayRunOver == job.pc \in {"finished", "crashed"} /\ ~is_weekend(job.weekday)

\* C12: at the end of a weekday run every user with a favorite got exactly
\* one send attempt, the body holding a block per favorite, and a user
\* without favorites got none (the store does not change during the run)
C12_OneDigestPerUser ==
    WeekdayRunOver =>
        \A u \in db.users :
            IF FavoritesOf(db, u.user_id) # {}
            THEN /\ Cardinality(MailsOf(u.user_id)) = 1
                 /\ \A m \in MailsOf(u.user_id) :
                       {b.symbol : b \in m.blocks} = SymbolsOf(u.user_id)
            ELSE MailsOf(u.user_id) = {}

BlockOf(m, symbol) == {b \in m.blocks : b.symbol = symbol}

C14_IdsUniqueUnderWriters ==
    /\ \A i, j \in 1..Len(writers.handed) : i < j => writers.handed[i] < writers.handed[j]
    /\ \A c \in Conns : writers.conn[c].pc # "failed"

\* ------------------------------------------------------------------------
\* Properties of the loop's termination
\* ------------------------------------------------------------------------
\* C15 as stated: the loop has no iteration cap, a model that keeps asking
\* for tools is never cut off
C15_NoIterationCap == pc # "cut_off"

\* C15, amended: the loop has no cap of its own and runs under the graph's
\* recursion limit: it never runs more steps than the limit; it is Done only
\* on a response without tool requests, which is logged; it is cut off only
\* with the limit used up by a model that still asks for tools, and then the
\* Query of the session has no Response
C15_LoopUnderRecursionLimit ==
    /\ pc \in {"AwaitingModel", "AwaitingTools", "Done", "cut_off"} =>
          Supersteps <= RecursionLimit
    /\ pc = "Done" => (LastMessage.type = "ai" /\ LastMessage.tool_calls = <<>>)
    /\ pc = "completed" =>
          /\ LastMessage.type = "ai" /\ LastMessage.tool_calls = <<>>
          /\ Cardinality(ResponsesOf(session.query_id)) = 1
    /\ pc = "cut_off" =>
          /\ Supersteps = RecursionLimit
          /\ LastMessage.type = "ai" /\ LastMessage.tool_calls # <<>>
          /\ ResponsesOf(session.query_id) = {}
          /\ session.query_id \notin completed

\* the loop was cut off; before that, it ran a dozen tool turns
C15_Witness == pc = "cut_off" /\ ToolTurns > 2

\* ------------------------------------------------------------------------
\* Properties of the logged response
\* ------------------------------------------------------------------------
\* C16: the response_text of the Response row of a completed session is the
\* text of the model response that ended the loop, also when that text is
\* empty; it is never the text of a tool result, of an earlier model turn or
\* of the query
C16_ResponseIsFinalAnswer ==
    pc = "completed" =>
        /\ LastMessage.type = "ai" /\ LastMessage.tool_calls = <<>>
        /\ \A r \in ResponsesOf(session.query_id) : r.response_text = LastMessage.content

\* ------------------------------------------------------------------------
\* Properties of update_thresholds
\* ------------------------------------------------------------------------
\* the favorite rows after the thresholds of (user, uppercased symbol) were
\* set to low and high, every other row being as it was
WithThresholds(rows, user_id, symbol, low, high) ==
    {IF f.user_id = user_id /\ f.stock_symbol = Upper(symbol)
     THEN [favorite_id          |-> f.favorite_id,
           user_id              |-> f.user_id,
           stock_symbol         |-> f.stock_symbol,
           price_threshold_low  |-> low,
           price_threshold_high |-> high]
     ELSE f : f \in rows}

\* C17: a call of update_stock_thresholds(user, symbol, low, high) that
\* reaches the store reports success; it leaves the addressed row with
\* exactly the low and high given, a threshold left out becoming unset, and
\* every other row as it was; no user's count of favorites changes; when the
\* user does not hold the symbol nothing changes
C17_UpdateReplacesBoth ==
    [][ (last'.op = "update_stock_thresholds" /\ ~last'.fail) =>
           /\ ~last'.raised
           /\ last'.ret.success = TRUE
           /\ db'.favorite_stocks =
                 WithThresholds(db.favorite_stocks, last'.arg.user_id, last'.arg.symbol,
                                last'.arg.low, last'.arg.high)
           /\ \A u \in UserArgs : Count(db', u) = Count(db, u)
           /\ ~last'.held => db' = db ]_vars

\* an update that left the high threshold out just returned for a favorite
\* the user holds, whose high threshold is now unset, while another favorite
\* still has both of its thresholds
C17_Witness ==
    /\ last.op = "update_stock_thresholds" /\ ~last.fail /\ ~last.raised
    /\ last.held /\ last.arg.low # Null /\ last.arg.high = Null
    /\ \E f \in FavoritesOf(db, last.arg.user_id) :
          /\ f.stock_symbol = Upper(last.arg.symbol)
          /\ f.price_threshold_low = last.arg.low /\ f.price_threshold_high = Null
    /\ \E f \in db.favorite_stocks :
          /\ f.stock_symbol # Upper(last.arg.symbol)
          /\ f.price_threshold_low # Null /\ f.price_threshold_high # Null

====
